---- MODULE Spec2Model ----
(***************************************************************************)
(* A model of app/assets/js/authmanager.js: the account operations of the  *)
(* launcher (addGalaxyQuestAccount, addMicrosoftAccount, validateSelected) *)
(* as asynchronous tasks that suspend at every awaited network call, the   *)
(* identity providers as nondeterministic responders, and ConfigManager as *)
(* the account store.                                                      *)
(***************************************************************************)
EXTENDS Integers, Sequences, FiniteSets, TLC

VARIABLES
    accounts,     \* ConfigManager's authenticationDatabase: uuid -> account record
    selected,     \* ConfigManager's selectedAccount: a uuid, or "none"
    clientToken,  \* ConfigManager's clientToken
    saved,        \* what the last ConfigManager.save() wrote
    now,          \* the wall clock, new Date().getTime(), in milliseconds
    task,         \* the asynchronous invocations: caller -> activation record
    nops,         \* how many operations have been started
    expiry        \* one call of calculateExpiryDate: its arguments and its result

vars == <<accounts, selected, clientToken, saved, now, task, nops, expiry>>

--------------------------------------------------------------------------
(* Bounds of the model *)

MaxOps == 3
MaxTicks == 1
MaxProbeLife == 30
MaxProbeNow == 3

(* Program constants *)

MsPerSecond == 1000
MarginS == 10

AUTH_MODE_FULL == 0
AUTH_MODE_MS_REFRESH == 1
AUTH_MODE_MC_REFRESH == 2

--------------------------------------------------------------------------
(* The environment: callers, the clock, what the providers may answer *)

Tasks == {"t1", "t2"}
MainTasks == {"t1"}

StartMs == 60 * MsPerSecond
TickMs == 5 * MsPerSecond

\* expires_in values (seconds) a token endpoint may report
Lifetimes == {5, 10, 20}

\* MicrosoftErrorCode values an error response may carry
MicrosoftErrorCodes == {"UNKNOWN", "NO_XBOX_ACCOUNT"}

MsUuid == "u1"
GqUuid == "g1"
Uuids == {MsUuid, GqUuid}

Tok(k, id) == [k |-> k, id |-> id]
NoTok == Tok("none", 0)

\* a token a provider issues now for life seconds: it carries the instant at
\* which the provider stops honouring it
IssuedTok(k, id, life) == [k |-> k, id |-> id, exp |-> now + life * MsPerSecond]

NoOAuth == [defined |-> FALSE, access_token |-> NoTok, refresh_token |-> NoTok,
            expires_in |-> 0]
NoMcToken == [access_token |-> NoTok, expires_in |-> 0]
NoAccount == [type |-> "none", uuid |-> "none"]

\* values a promise settles with
Val(type, code) == [type |-> type, code |-> code]
BoolVal(b) == Val("boolean", IF b THEN "true" ELSE "false")
NoResult == [kind |-> "none", value |-> Val("none", "none")]
Resolved(v) == [kind |-> "resolved", value |-> v]
Rejected(v) == [kind |-> "rejected", value |-> v]

\* microsoftErrorDisplayable of helios-core: the displayable form of a code
microsoftErrorDisplayable(code) == Val("displayable", code)

Call(ep, input, refresh) == [ep |-> ep, input |-> input, refresh |-> refresh]

EmptyStore == [accounts |-> [u \in {} |-> NoAccount], selected |-> "none",
               clientToken |-> NoTok]

IdleTask ==
    [pc |-> "done", op |-> "none", id |-> 0, uuid |-> "none",
     entryCode |-> NoTok, authMode |-> AUTH_MODE_FULL,
     current |-> NoAccount, nowv |-> 0,
     accessToken |-> NoOAuth, accessTokenRaw |-> NoTok,
     xbl |-> NoTok, xsts |-> NoTok, mcToken |-> NoMcToken,
     loginStatus |-> "none",
     calls |-> <<>>, flows |-> 0,
     failedAt |-> "none", failCode |-> "none", flowErr |-> Val("none", "none"),
     writes |-> 0, pre |-> EmptyStore, t1 |-> 0,
     prevOp |-> "none", prevOk |-> FALSE, prevAt |-> 0, prevMcLife |-> 0,
     during |-> {}, seq |-> 0,
     result |-> NoResult]

--------------------------------------------------------------------------
(* ConfigManager, the account store *)

Store == [accounts |-> accounts, selected |-> selected, clientToken |-> clientToken]

getSelectedAccount ==
    IF selected \in DOMAIN accounts THEN accounts[selected] ELSE NoAccount

Put(db, uuid, rec) ==
    [u \in DOMAIN db \cup {uuid} |-> IF u = uuid THEN rec ELSE db[u]]

MicrosoftRecord(uuid, accessToken, name, mcExpires, msAccessToken, msRefreshToken, msExpires) ==
    [type |-> "microsoft", uuid |-> uuid, accessToken |-> accessToken,
     username |-> name, displayName |-> name, expiresAt |-> mcExpires,
     microsoft |-> [access_token |-> msAccessToken, refresh_token |-> msRefreshToken,
                    expires_at |-> msExpires]]

\* addMicrosoftAuthAccount followed by save(): the new account becomes the selected one
addMicrosoftAuthAccount(uuid, accessToken, name, mcExpires, msAccessToken, msRefreshToken, msExpires) ==
    LET rec == MicrosoftRecord(uuid, accessToken, name, mcExpires,
                               msAccessToken, msRefreshToken, msExpires)
        db  == Put(accounts, uuid, rec)
    IN /\ accounts' = db
       /\ selected' = uuid
       /\ clientToken' = clientToken
       /\ saved' = [accounts |-> db, selected |-> uuid, clientToken |-> clientToken]

\* updateMicrosoftAuthAccount followed by save(): token fields of an existing record
updateMicrosoftAuthAccount(uuid, accessToken, msAccessToken, msRefreshToken, msExpires, mcExpires) ==
    LET old == accounts[uuid]
        rec == [old EXCEPT !.accessToken = accessToken,
                           !.expiresAt = mcExpires,
                           !.microsoft = [access_token |-> msAccessToken,
                                          refresh_token |-> msRefreshToken,
                                          expires_at |-> msExpires]]
        db  == Put(accounts, uuid, rec)
    IN /\ accounts' = db
       /\ UNCHANGED <<selected, clientToken>>
       /\ saved' = [accounts |-> db, selected |-> selected, clientToken |-> clientToken]

\* addGalaxyQuestAuthAccount, the client token set when there is none, and save()
addGalaxyQuestAuthAccount(uuid, accessToken, username, displayName) ==
    LET rec == [type |-> "galaxyquest", uuid |-> uuid, accessToken |-> accessToken,
                username |-> username, displayName |-> displayName]
        db  == Put(accounts, uuid, rec)
        ct  == IF clientToken = NoTok THEN accessToken ELSE clientToken
    IN /\ accounts' = db
       /\ selected' = uuid
       /\ clientToken' = ct
       /\ saved' = [accounts |-> db, selected |-> uuid, clientToken |-> ct]

getAuthAccount(uuid) == IF uuid \in DOMAIN accounts THEN accounts[uuid] ELSE NoAccount

\* removeAuthAccount followed by save(): when the selected account is removed,
\* another stored account (if any) becomes the selected one
removeAuthAccount(uuid) ==
    LET db == [u \in DOMAIN accounts \ {uuid} |-> accounts[u]]
    IN /\ accounts' = db
       /\ clientToken' = clientToken
       /\ IF selected # uuid
          THEN selected' = selected
          ELSE IF DOMAIN db = {} THEN selected' = "none" ELSE selected' \in DOMAIN db
       /\ saved' = [accounts |-> db, selected |-> selected', clientToken |-> clientToken]

StoreUnchanged == UNCHANGED <<accounts, selected, clientToken, saved>>

--------------------------------------------------------------------------
(* calculateExpiryDate *)

\* a variant that adds the margin
calculateExpiryDateLate(nowMs, epiresInS) == nowMs + ((epiresInS + MarginS) * MsPerSecond)

\* a variant that never returns an instant before nowMs
calculateExpiryDateClamped(nowMs, epiresInS) ==
    IF epiresInS < MarginS THEN nowMs ELSE nowMs + ((epiresInS - MarginS) * MsPerSecond)

\* a variant that forgets to scale the lifetime to milliseconds
calculateExpiryDateUnscaled(nowMs, epiresInS) == nowMs + (epiresInS - (MarginS * MsPerSecond))

calculateExpiryDate(nowMs, epiresInS) == nowMs + ((epiresInS - MarginS) * MsPerSecond)

--------------------------------------------------------------------------
(* Bookkeeping shared by the operations *)

\* a caller starts operation op: a fresh activation record; during holds the
\* calls of other callers that are suspended at this moment
Begin(t, op) ==
    [IdleTask EXCEPT !.op = op, !.id = nops + 1, !.pre = Store,
                     !.during = {task[u].id : u \in {v \in Tasks \ {t} : task[v].pc # "done"}},
                     !.prevOp = task[t].op,
                     !.prevOk = (task[t].result.kind = "resolved"),
                     !.prevAt = task[t].t1,
                     !.prevMcLife = task[t].mcToken.expires_in]

\* the position of the latest settlement in the order of settlements
MaxSeq == CHOOSE n \in {task[u].seq : u \in Tasks} : \A u \in Tasks : task[u].seq <= n

\* the operation's promise settles
Finish(r, res) == [r EXCEPT !.pc = "done", !.result = res, !.t1 = now, !.seq = MaxSeq + 1]

Invoke(r, ep, input, refresh) == [r EXCEPT !.calls = Append(@, Call(ep, input, refresh))]

CanStart(t) == task[t].pc = "done" /\ nops < MaxOps

--------------------------------------------------------------------------
(* addMicrosoftAccount and validateSelectedMicrosoftAccount around the flow *)

\* addMicrosoftAccount after `await fullMicrosoftAuthFlow(authCode, AUTH_MODE.FULL)`
addMicrosoftAccountResume(t, r, ok, err, mcProfile) ==
    IF ok
    THEN /\ addMicrosoftAuthAccount(
                mcProfile.id,
                r.mcToken.access_token,
                mcProfile.name,
                calculateExpiryDate(now, r.mcToken.expires_in),
                r.accessToken.access_token,
                r.accessToken.refresh_token,
                calculateExpiryDate(now, r.accessToken.expires_in))
         /\ task' = [task EXCEPT ![t] =
                Finish([r EXCEPT !.writes = @ + 1], Resolved(Val("account", mcProfile.id)))]
    ELSE /\ StoreUnchanged
         /\ task' = [task EXCEPT ![t] = Finish(r, Rejected(err))]

\* a variant with a version check: it writes only when the stored record is still
\* the one read when validation began
validateMsRefreshResumeVersionChecked(t, r, ok) ==
    IF ok /\ r.current.uuid \in DOMAIN accounts
    THEN /\ IF accounts[r.current.uuid] = r.current
            THEN updateMicrosoftAuthAccount(
                    r.current.uuid,
                    r.mcToken.access_token,
                    r.accessToken.access_token,
                    r.accessToken.refresh_token,
                    calculateExpiryDate(r.nowv, r.accessToken.expires_in),
                    calculateExpiryDate(r.nowv, r.mcToken.expires_in))
            ELSE StoreUnchanged
         /\ task' = [task EXCEPT ![t] =
                Finish([r EXCEPT !.writes = @ + 1], Resolved(BoolVal(TRUE)))]
    ELSE /\ StoreUnchanged
         /\ task' = [task EXCEPT ![t] = Finish(r, Resolved(BoolVal(FALSE)))]

\* the try/catch around the MS_REFRESH flow in validateSelectedMicrosoftAccount
validateMsRefreshResume(t, r, ok) ==
    IF ok /\ r.current.uuid \in DOMAIN accounts
    THEN /\ updateMicrosoftAuthAccount(
                r.current.uuid,
                r.mcToken.access_token,
                r.accessToken.access_token,
                r.accessToken.refresh_token,
                calculateExpiryDate(r.nowv, r.accessToken.expires_in),
                calculateExpiryDate(r.nowv, r.mcToken.expires_in))
         /\ task' = [task EXCEPT ![t] =
                Finish([r EXCEPT !.writes = @ + 1], Resolved(BoolVal(TRUE)))]
    ELSE /\ StoreUnchanged
         /\ task' = [task EXCEPT ![t] = Finish(r, Resolved(BoolVal(FALSE)))]

\* a variant that writes the flow's OAuth pair, as the MS_REFRESH branch does
validateMcRefreshResumeFlowPair(t, r, ok) ==
    IF ok /\ r.current.uuid \in DOMAIN accounts
    THEN /\ updateMicrosoftAuthAccount(
                r.current.uuid,
                r.mcToken.access_token,
                r.accessToken.access_token,
                r.accessToken.refresh_token,
                calculateExpiryDate(r.nowv, r.accessToken.expires_in),
                calculateExpiryDate(r.nowv, r.mcToken.expires_in))
         /\ task' = [task EXCEPT ![t] =
                Finish([r EXCEPT !.writes = @ + 1], Resolved(BoolVal(TRUE)))]
    ELSE /\ StoreUnchanged
         /\ task' = [task EXCEPT ![t] = Finish(r, Resolved(BoolVal(FALSE)))]

\* a variant whose store update is not guarded by the flow's success
validateMcRefreshResumeUnguarded(t, r, ok) ==
    /\ updateMicrosoftAuthAccount(
                r.current.uuid,
                r.mcToken.access_token,
                r.current.microsoft.access_token,
                r.current.microsoft.refresh_token,
                r.current.microsoft.expires_at,
                calculateExpiryDate(r.nowv, r.mcToken.expires_in))
    /\ task' = [task EXCEPT ![t] =
           Finish([r EXCEPT !.writes = @ + 1], Resolved(BoolVal(ok)))]

\* the try/catch around the MC_REFRESH flow in validateSelectedMicrosoftAccount
validateMcRefreshResume(t, r, ok) ==
    IF ok /\ r.current.uuid \in DOMAIN accounts
    THEN /\ updateMicrosoftAuthAccount(
                r.current.uuid,
                r.mcToken.access_token,
                r.current.microsoft.access_token,
                r.current.microsoft.refresh_token,
                r.current.microsoft.expires_at,
                calculateExpiryDate(r.nowv, r.mcToken.expires_in))
         /\ task' = [task EXCEPT ![t] =
                Finish([r EXCEPT !.writes = @ + 1], Resolved(BoolVal(TRUE)))]
    ELSE /\ StoreUnchanged
         /\ task' = [task EXCEPT ![t] = Finish(r, Resolved(BoolVal(FALSE)))]

\* the flow's promise settles and the awaiting caller runs on
FlowSettled(t, r, ok, err, mcProfile) ==
    IF r.op = "addMicrosoftAccount"
    THEN addMicrosoftAccountResume(t, r, ok, err, mcProfile)
    ELSE IF r.authMode = AUTH_MODE_MS_REFRESH
         THEN validateMsRefreshResume(t, r, ok)
         ELSE validateMcRefreshResume(t, r, ok)

NoProfile == [id |-> "none", name |-> "none"]

--------------------------------------------------------------------------
(* fullMicrosoftAuthFlow *)

NextEndpoint(ep) ==
    CASE ep = "getAccessToken" -> "getXBLToken"
      [] ep = "getXBLToken" -> "getXSTSToken"
      [] ep = "getXSTSToken" -> "getMCAccessToken"
      [] OTHER -> "getMCProfile"

\* a variant that notes the ERROR response and goes on to the next step
FlowErrorContinue(t, r, ep, code) ==
    IF ep = "getMCProfile"
    THEN FlowSettled(t, [r EXCEPT !.failedAt = ep, !.failCode = code,
                                  !.flowErr = microsoftErrorDisplayable(code)], FALSE,
                     microsoftErrorDisplayable(code), NoProfile)
    ELSE /\ task' = [task EXCEPT ![t] =
                [r EXCEPT !.failedAt = ep, !.failCode = code,
                          !.flowErr = microsoftErrorDisplayable(code),
                          !.pc = NextEndpoint(ep)]]
         /\ StoreUnchanged

\* a variant that rejects every ERROR response with the generic UNKNOWN error
FlowErrorGeneric(t, r, ep, code) ==
    FlowSettled(t, [r EXCEPT !.failedAt = ep, !.failCode = code,
                             !.flowErr = microsoftErrorDisplayable("UNKNOWN")], FALSE,
                microsoftErrorDisplayable("UNKNOWN"), NoProfile)

\* an ERROR response: `return Promise.reject(microsoftErrorDisplayable(code))`
FlowError(t, r, ep, code) ==
    FlowSettled(t, [r EXCEPT !.failedAt = ep, !.failCode = code,
                             !.flowErr = microsoftErrorDisplayable(code)], FALSE,
                microsoftErrorDisplayable(code), NoProfile)

\* a step throws: the catch rejects with microsoftErrorDisplayable(UNKNOWN)
FlowCatch(t, r, ep) ==
    FlowSettled(t, [r EXCEPT !.failedAt = ep, !.failCode = "thrown",
                             !.flowErr = microsoftErrorDisplayable("UNKNOWN")], FALSE,
                microsoftErrorDisplayable("UNKNOWN"), NoProfile)

\* a variant that asks for an OAuth token in every mode
FlowEntryNoSkip(r, entryCode, authMode) ==
    [r EXCEPT !.pc = "getAccessToken", !.entryCode = entryCode, !.authMode = authMode,
              !.flows = @ + 1]

\* entry of the flow, up to its first await
FlowEntry(r, entryCode, authMode) ==
    IF authMode # AUTH_MODE_MC_REFRESH
    THEN [r EXCEPT !.pc = "getAccessToken", !.entryCode = entryCode, !.authMode = authMode,
                   !.flows = @ + 1]
    ELSE [r EXCEPT !.pc = "getXBLToken", !.entryCode = entryCode, !.authMode = authMode,
                   !.flows = @ + 1, !.accessTokenRaw = entryCode]

StepFails(t, r, ep) ==
    \/ \E code \in MicrosoftErrorCodes : FlowError(t, r, ep, code)
    \/ FlowCatch(t, r, ep)

GetAccessToken(t) ==
    /\ task[t].pc = "getAccessToken"
    /\ LET r == Invoke(task[t], "getAccessToken", task[t].entryCode,
                       task[t].authMode = AUTH_MODE_MS_REFRESH)
       IN \/ \E e \in Lifetimes :
                LET data == [defined |-> TRUE,
                             access_token |-> IssuedTok("msAccess", r.id, e),
                             refresh_token |-> Tok("msRefresh", r.id),
                             expires_in |-> e]
                IN /\ task' = [task EXCEPT ![t] =
                          [r EXCEPT !.pc = "getXBLToken", !.accessToken = data,
                                    !.accessTokenRaw = data.access_token]]
                   /\ StoreUnchanged
          \/ StepFails(t, r, "getAccessToken")
    /\ UNCHANGED <<now, nops, expiry>>

GetXBLToken(t) ==
    /\ task[t].pc = "getXBLToken"
    /\ LET r == Invoke(task[t], "getXBLToken", task[t].accessTokenRaw, FALSE)
       IN \/ /\ task' = [task EXCEPT ![t] =
                     [r EXCEPT !.pc = "getXSTSToken", !.xbl = Tok("xbl", r.id)]]
             /\ StoreUnchanged
          \/ StepFails(t, r, "getXBLToken")
    /\ UNCHANGED <<now, nops, expiry>>

\* a variant that hands the OAuth access token, not the XBL payload, to getXSTSToken
GetXSTSTokenRawInput(t) ==
    /\ task[t].pc = "getXSTSToken"
    /\ LET r == Invoke(task[t], "getXSTSToken", task[t].accessTokenRaw, FALSE)
       IN \/ /\ task' = [task EXCEPT ![t] =
                     [r EXCEPT !.pc = "getMCAccessToken", !.xsts = Tok("xsts", r.id)]]
             /\ StoreUnchanged
          \/ StepFails(t, r, "getXSTSToken")
    /\ UNCHANGED <<now, nops, expiry>>

GetXSTSToken(t) ==
    /\ task[t].pc = "getXSTSToken"
    /\ LET r == Invoke(task[t], "getXSTSToken", task[t].xbl, FALSE)
       IN \/ /\ task' = [task EXCEPT ![t] =
                     [r EXCEPT !.pc = "getMCAccessToken", !.xsts = Tok("xsts", r.id)]]
             /\ StoreUnchanged
          \/ StepFails(t, r, "getXSTSToken")
    /\ UNCHANGED <<now, nops, expiry>>

GetMCAccessToken(t) ==
    /\ task[t].pc = "getMCAccessToken"
    /\ LET r == Invoke(task[t], "getMCAccessToken", task[t].xsts, FALSE)
       IN \/ \E e \in Lifetimes :
                /\ task' = [task EXCEPT ![t] =
                       [r EXCEPT !.pc = "getMCProfile",
                                 !.mcToken = [access_token |-> IssuedTok("mc", r.id, e),
                                              expires_in |-> e]]]
                /\ StoreUnchanged
          \/ StepFails(t, r, "getMCAccessToken")
    /\ UNCHANGED <<now, nops, expiry>>

GetMCProfile(t) ==
    /\ task[t].pc = "getMCProfile"
    /\ LET r == Invoke(task[t], "getMCProfile", task[t].mcToken.access_token, FALSE)
       IN \/ FlowSettled(t, r, TRUE, Val("none", "none"),
                         [id |-> MsUuid, name |-> "Steve"])
          \/ StepFails(t, r, "getMCProfile")
    /\ UNCHANGED <<now, nops, expiry>>

--------------------------------------------------------------------------
(* addGalaxyQuestAccount *)

\* the second-factor code the user holds, and the one the code passes: ''
CorrectCode == "271828"
twoFactorCode == ""

\* what client.login may report: a status, with requires2fa
LoginResults(code) ==
    (IF code = CorrectCode \/ code = "absent"
     THEN {[status |-> "success", requires2fa |-> FALSE]} ELSE {})
    \cup (IF code # CorrectCode
          THEN {[status |-> "pending", requires2fa |-> TRUE]} ELSE {})
    \cup {[status |-> "pending", requires2fa |-> FALSE],
          [status |-> "error", requires2fa |-> FALSE]}

\* `mojangErrorDisplayable` and `MojangErrorCode` are bound nowhere in the module:
\* evaluating the rejection raises a ReferenceError, inside the try (line 42) and
\* again inside the catch (line 56), and that is what the promise rejects with
GalaxyQuestFailure(t, r) ==
    /\ task' = [task EXCEPT ![t] =
           Finish(r, Rejected(Val("ReferenceError", "mojangErrorDisplayable")))]
    /\ StoreUnchanged

\* lines 40-51, after the last login answered
GalaxyQuestResult(t, r, result) ==
    IF result.status # "success"
    THEN GalaxyQuestFailure(t, r)
    ELSE /\ addGalaxyQuestAuthAccount(GqUuid, Tok("gq", r.id), "alex", "alex")
         /\ task' = [task EXCEPT ![t] =
                Finish([r EXCEPT !.writes = @ + 1], Resolved(Val("account", GqUuid)))]

addGalaxyQuestAccount(t) ==
    /\ CanStart(t)
    /\ task' = [task EXCEPT ![t] = [Begin(t, "addGalaxyQuestAccount") EXCEPT !.pc = "login"]]
    /\ nops' = nops + 1
    /\ StoreUnchanged
    /\ UNCHANGED <<now, expiry>>

\* `await client.login(username, password)` answers
Login(t) ==
    /\ task[t].pc = "login"
    /\ LET r == Invoke(task[t], "login", Tok("absent", 0), FALSE)
       IN \/ \E result \in LoginResults("absent") :
                LET r1 == [r EXCEPT !.loginStatus = result.status]
                IN IF result.status = "pending" /\ result.requires2fa
                   THEN /\ task' = [task EXCEPT ![t] = [r1 EXCEPT !.pc = "login2fa"]]
                        /\ StoreUnchanged
                   ELSE GalaxyQuestResult(t, r1, result)
          \/ GalaxyQuestFailure(t, [r EXCEPT !.loginStatus = "thrown"])
    /\ UNCHANGED <<now, nops, expiry>>

\* `await client.login(username, password, twoFactorCode)` answers
Login2fa(t) ==
    /\ task[t].pc = "login2fa"
    /\ LET r == Invoke(task[t], "login", Tok(twoFactorCode, 0), FALSE)
       IN \/ \E result \in LoginResults(twoFactorCode) :
                GalaxyQuestResult(t, [r EXCEPT !.loginStatus = result.status], result)
          \/ GalaxyQuestFailure(t, [r EXCEPT !.loginStatus = "thrown"])
    /\ UNCHANGED <<now, nops, expiry>>

--------------------------------------------------------------------------
(* The exported operations *)

addMicrosoftAccount(t) ==
    /\ CanStart(t)
    /\ task' = [task EXCEPT ![t] =
           FlowEntry(Begin(t, "addMicrosoftAccount"), Tok("authCode", nops + 1),
                     AUTH_MODE_FULL)]
    /\ nops' = nops + 1
    /\ StoreUnchanged
    /\ UNCHANGED <<now, expiry>>

Undefined == Val("undefined", "undefined")

removeMicrosoftAccount(t, uuid) ==
    /\ CanStart(t)
    /\ removeAuthAccount(uuid)
    /\ task' = [task EXCEPT ![t] =
           Finish([Begin(t, "removeMicrosoftAccount") EXCEPT !.uuid = uuid, !.writes = 1],
                  Resolved(Undefined))]
    /\ nops' = nops + 1
    /\ UNCHANGED <<now, expiry>>

removeGalaxyquestAccount(t, uuid) ==
    /\ CanStart(t)
    /\ removeAuthAccount(uuid)
    /\ task' = [task EXCEPT ![t] =
           Finish([Begin(t, "removeGalaxyquestAccount") EXCEPT
                      !.uuid = uuid, !.current = getAuthAccount(uuid), !.writes = 1],
                  Resolved(Undefined))]
    /\ nops' = nops + 1
    /\ UNCHANGED <<now, expiry>>

\* a variant with the comparison turned around
isExpiredInverted(nowMs, expiresAt) == nowMs <= expiresAt

isExpired(nowMs, expiresAt) == nowMs >= expiresAt

\* a variant that seeds each refresh with the other stored OAuth token
validateSelectedMicrosoftAccountSwapped(r) ==
    LET current == getSelectedAccount
        r1 == [r EXCEPT !.current = current, !.nowv = now]
    IN IF ~isExpired(now, current.expiresAt)
       THEN Finish(r1, Resolved(BoolVal(TRUE)))
       ELSE IF isExpired(now, current.microsoft.expires_at)
            THEN FlowEntry(r1, current.microsoft.access_token, AUTH_MODE_MS_REFRESH)
            ELSE FlowEntry(r1, current.microsoft.refresh_token, AUTH_MODE_MC_REFRESH)

validateSelectedMicrosoftAccount(r) ==
    LET current == getSelectedAccount
        r1 == [r EXCEPT !.current = current, !.nowv = now]
    IN IF ~isExpired(now, current.expiresAt)
       THEN Finish(r1, Resolved(BoolVal(TRUE)))
       ELSE IF isExpired(now, current.microsoft.expires_at)
            THEN FlowEntry(r1, current.microsoft.refresh_token, AUTH_MODE_MS_REFRESH)
            ELSE FlowEntry(r1, current.microsoft.access_token, AUTH_MODE_MC_REFRESH)

validateSelected(t) ==
    /\ CanStart(t)
    /\ LET r == Begin(t, "validateSelected")
           current == getSelectedAccount
       IN task' = [task EXCEPT ![t] =
             IF current.type = "none"
             THEN Finish(r, Rejected(Val("TypeError", "current")))
             ELSE IF current.type = "microsoft"
                  THEN validateSelectedMicrosoftAccount(r)
                  ELSE Finish([r EXCEPT !.current = current],
                              Rejected(Val("ReferenceError",
                                           "validateSelectedGalaxyquestAccount")))]
    /\ nops' = nops + 1
    /\ StoreUnchanged
    /\ UNCHANGED <<now, expiry>>

--------------------------------------------------------------------------
(* The clock *)

Tick ==
    /\ now < StartMs + MaxTicks * TickMs
    /\ now' = now + TickMs
    /\ UNCHANGED <<accounts, selected, clientToken, saved, task, nops, expiry>>

--------------------------------------------------------------------------
NoExpiry == [nowMs |-> 0, epiresInS |-> 0, result |-> 0, called |-> FALSE]

Init ==
    /\ accounts = EmptyStore.accounts
    /\ selected = "none"
    /\ clientToken = NoTok
    /\ saved = EmptyStore
    /\ now = StartMs
    /\ task = [t \in Tasks |-> IdleTask]
    /\ nops = 0
    /\ expiry = NoExpiry

Step(t) ==
    \/ addMicrosoftAccount(t)
    \/ addGalaxyQuestAccount(t)
    \/ validateSelected(t)
    \/ \E uuid \in Uuids : removeMicrosoftAccount(t, uuid)
    \/ \E uuid \in Uuids : removeGalaxyquestAccount(t, uuid)
    \/ Login(t)
    \/ Login2fa(t)
    \/ GetAccessToken(t)
    \/ GetXBLToken(t)
    \/ GetXSTSToken(t)
    \/ GetMCAccessToken(t)
    \/ GetMCProfile(t)

Next == Tick \/ \E t \in MainTasks : Step(t)

Spec == Init /\ [][Next]_vars

--------------------------------------------------------------------------
(* Callers that do not serialize their calls: the launcher has stored one
   Microsoft account in an earlier call and its game token has expired *)

StoredMicrosoftAccount(msExpires) ==
    MicrosoftRecord(MsUuid,
                    [k |-> "mc", id |-> 1, exp |-> StartMs + MarginS * MsPerSecond],
                    "Steve", StartMs,
                    [k |-> "msAccess", id |-> 1, exp |-> msExpires + MarginS * MsPerSecond],
                    Tok("msRefresh", 1), msExpires)

InitConc ==
    /\ \E msExpires \in {StartMs, StartMs + TickMs} :
          accounts = Put(EmptyStore.accounts, MsUuid, StoredMicrosoftAccount(msExpires))
    /\ selected = MsUuid
    /\ clientToken = NoTok
    /\ saved = [accounts |-> accounts, selected |-> selected, clientToken |-> clientToken]
    /\ now = StartMs
    /\ task = [t \in Tasks |-> IdleTask]
    /\ nops = 1
    /\ expiry = NoExpiry

StepConc(t) ==
    \/ validateSelected(t)
    \/ addGalaxyQuestAccount(t)
    \/ removeMicrosoftAccount(t, MsUuid)
    \/ Login(t)
    \/ Login2fa(t)
    \/ GetAccessToken(t)
    \/ GetXBLToken(t)
    \/ GetXSTSToken(t)
    \/ GetMCAccessToken(t)
    \/ GetMCProfile(t)

NextConc == Tick \/ \E t \in Tasks : StepConc(t)

SpecConc == InitConc /\ [][NextConc]_vars

--------------------------------------------------------------------------
(* calculateExpiryDate on its own: every instant and lifetime of a range *)

ProbeNows == {StartMs + i : i \in 0..MaxProbeNow}
ProbeLifetimes == 0..MaxProbeLife

InitExpiry ==
    /\ accounts = EmptyStore.accounts
    /\ selected = "none"
    /\ clientToken = NoTok
    /\ saved = EmptyStore
    /\ now = StartMs
    /\ task = [t \in Tasks |-> IdleTask]
    /\ nops = 0
    /\ expiry \in {[nowMs |-> n, epiresInS |-> l, result |-> 0, called |-> FALSE] :
                    n \in ProbeNows, l \in ProbeLifetimes}

CallCalculateExpiryDate ==
    /\ ~expiry.called
    /\ expiry' = [expiry EXCEPT !.result = calculateExpiryDate(expiry.nowMs, expiry.epiresInS),
                                !.called = TRUE]
    /\ UNCHANGED <<accounts, selected, clientToken, saved, now, task, nops>>

NextExpiry == CallCalculateExpiryDate

SpecExpiry == InitExpiry /\ [][NextExpiry]_vars

--------------------------------------------------------------------------
(* Properties *)

Count(calls, ep) == Cardinality({i \in 1..Len(calls) : calls[i].ep = ep})

IsValidateMs(r) == r.op = "validateSelected" /\ r.current.type = "microsoft"

StoreAsBefore(r) == Store = r.pre /\ saved = r.pre /\ r.writes = 0

\* C1: a validation of a selected Microsoft account whose expiresAt is strictly
\* later than the instant it read resolves true at once, with no endpoint
\* invoked, no flow entered and no write to the account store.
C1_FreshTokenNoNetwork ==
    \A t \in Tasks :
        LET r == task[t]
        IN (IsValidateMs(r) /\ r.nowv < r.current.expiresAt)
           => /\ r.pc = "done"
              /\ r.result = Resolved(BoolVal(TRUE))
              /\ r.calls = <<>>
              /\ r.flows = 0
              /\ StoreAsBefore(r)

C1_Witness ==
    \E t \in Tasks :
        /\ IsValidateMs(task[t])
        /\ task[t].nowv < task[t].current.expiresAt
        /\ task[t].result = Resolved(BoolVal(TRUE))

\* C2: a validation that finds now >= expiresAt and now < msExpiresAt enters the
\* flow exactly once, in MC_REFRESH mode, seeded with the stored OAuth access
\* token; its first call is getXBLToken on that token and getAccessToken is
\* never invoked.
C2_McRefreshSkipsOAuth ==
    \A t \in Tasks :
        LET r == task[t]
        IN (/\ IsValidateMs(r)
            /\ r.nowv >= r.current.expiresAt
            /\ r.nowv < r.current.microsoft.expires_at)
           => /\ r.flows = 1
              /\ r.authMode = AUTH_MODE_MC_REFRESH
              /\ r.entryCode = r.current.microsoft.access_token
              /\ Count(r.calls, "getAccessToken") = 0
              /\ \A e \in {"getXBLToken", "getXSTSToken", "getMCAccessToken",
                            "getMCProfile"} : Count(r.calls, e) <= 1
              /\ r.calls # <<>> =>
                    r.calls[1] = Call("getXBLToken", r.current.microsoft.access_token, FALSE)
              /\ r.pc = "done" => r.calls # <<>>

C2_Witness ==
    \E t \in Tasks :
        /\ IsValidateMs(task[t])
        /\ task[t].nowv >= task[t].current.expiresAt
        /\ task[t].nowv < task[t].current.microsoft.expires_at
        /\ task[t].result = Resolved(BoolVal(TRUE))
        /\ Len(task[t].calls) = 4

\* C3: a validation that finds now >= expiresAt and now >= msExpiresAt enters the
\* flow in MS_REFRESH mode seeded with the stored refresh token, and every call
\* of the XBL, XSTS, game-token or profile endpoint comes after a getAccessToken
\* call made as a refresh with that token.
C3_MsRefreshOAuthFirst ==
    \A t \in Tasks :
        LET r == task[t]
        IN (/\ IsValidateMs(r)
            /\ r.nowv >= r.current.expiresAt
            /\ r.nowv >= r.current.microsoft.expires_at)
           => /\ r.flows = 1
              /\ r.authMode = AUTH_MODE_MS_REFRESH
              /\ r.entryCode = r.current.microsoft.refresh_token
              /\ r.calls # <<>> =>
                    r.calls[1] = Call("getAccessToken",
                                      r.current.microsoft.refresh_token, TRUE)
              /\ \A i \in 1..Len(r.calls) :
                    r.calls[i].ep # "getAccessToken" =>
                        \E j \in 1..(i - 1) : r.calls[j].ep = "getAccessToken"
              /\ r.pc = "done" => Count(r.calls, "getAccessToken") = 1

C3_Witness ==
    \E t \in Tasks :
        /\ IsValidateMs(task[t])
        /\ task[t].nowv >= task[t].current.microsoft.expires_at
        /\ task[t].nowv >= task[t].current.expiresAt
        /\ task[t].result = Resolved(BoolVal(TRUE))
        /\ Len(task[t].calls) = 5

\* C4: when a step of the Microsoft chain fails (an ERROR response or a throw),
\* the operation that ran the flow has settled without any write to the account
\* store: addMicrosoftAccount rejects and the store is as it was before the
\* call; validation resolves false and the stored record equals the record it
\* read at its start.
C4_FailureLeavesStore ==
    \A t \in Tasks :
        LET r == task[t]
        IN r.failedAt # "none"
           => /\ r.pc = "done"
              /\ StoreAsBefore(r)
              /\ r.op = "addMicrosoftAccount" => r.result.kind = "rejected"
              /\ r.op = "validateSelected" =>
                    /\ r.result = Resolved(BoolVal(FALSE))
                    /\ r.current.uuid \in DOMAIN accounts
                    /\ accounts[r.current.uuid] = r.current

C4_Witness ==
    \E t \in Tasks :
        /\ IsValidateMs(task[t])
        /\ task[t].failedAt = "getMCProfile"
        /\ task[t].result = Resolved(BoolVal(FALSE))

\* C5: once a step of the flow has answered with an ERROR response (or thrown),
\* the flow has ended with a rejection and the failing call is the last call of
\* the operation: no later endpoint is invoked.
C5_ShortCircuit ==
    \A t \in Tasks :
        LET r == task[t]
        IN r.failedAt # "none"
           => /\ r.pc = "done"
              /\ r.calls # <<>>
              /\ r.calls[Len(r.calls)].ep = r.failedAt
              /\ Count(r.calls, r.failedAt) = 1
              /\ r.flowErr.type = "displayable"
              /\ r.result.kind # "none"

C5_Witness ==
    \E t \in Tasks :
        /\ task[t].failedAt = "getXBLToken"
        /\ task[t].failCode = "NO_XBOX_ACCOUNT"
        /\ task[t].pc = "done"

FlowDeliversStepError(r) ==
    r.failCode # "thrown"
    => /\ r.flowErr = microsoftErrorDisplayable(r.failCode)
       /\ r.op = "addMicrosoftAccount" =>
             r.result = Rejected(microsoftErrorDisplayable(r.failCode))

\* C6 as stated: the error delivered for an ERROR response is the displayable
\* error of the failing step's code, and the UNKNOWN error is delivered only
\* when a step threw.
C6_UnknownOnlyWhenThrown ==
    \A t \in Tasks :
        LET r == task[t]
        IN r.failedAt # "none"
           => /\ FlowDeliversStepError(r)
              /\ r.flowErr = microsoftErrorDisplayable("UNKNOWN") => r.failCode = "thrown"

\* C6 amended: the error delivered for an ERROR response is the displayable
\* error of exactly the failing step's code (for addMicrosoftAccount it is the
\* rejection value), and the UNKNOWN error is delivered only when a step
\* threw or when the failing step's own code is UNKNOWN.
C6_StepErrorDelivered ==
    \A t \in Tasks :
        LET r == task[t]
        IN r.failedAt # "none"
           => /\ FlowDeliversStepError(r)
              /\ r.flowErr = microsoftErrorDisplayable("UNKNOWN")
                    => r.failCode \in {"thrown", "UNKNOWN"}
              /\ r.failCode = "thrown" => r.flowErr = microsoftErrorDisplayable("UNKNOWN")

C6_Witness ==
    \E t \in Tasks :
        /\ task[t].op = "addMicrosoftAccount"
        /\ task[t].failedAt = "getXSTSToken"
        /\ task[t].failCode = "NO_XBOX_ACCOUNT"
        /\ task[t].result = Rejected(microsoftErrorDisplayable("NO_XBOX_ACCOUNT"))

\* a validateSelected called right after a successful addMicrosoftAccount, and
\* reading the clock at the instant addMicrosoftAccount read it
ValidatesRightAfterAdd(r) ==
    /\ IsValidateMs(r)
    /\ r.prevOp = "addMicrosoftAccount"
    /\ r.prevOk
    /\ r.nowv = r.prevAt

ResolvesTrueOffline(r) ==
    /\ r.pc = "done"
    /\ r.result = Resolved(BoolVal(TRUE))
    /\ r.calls = <<>>

\* C7 as stated: after a successful addMicrosoftAccount, a validateSelected at
\* the same instant resolves true without any endpoint call, whatever lifetime
\* the game-service token endpoint reported.
C7_RoundTripAnyLifetime ==
    \A t \in Tasks :
        ValidatesRightAfterAdd(task[t]) => ResolvesTrueOffline(task[t])

\* C7 amended: the same, for every reported game-service token lifetime
\* greater than the 10-second margin.
C7_RoundTripBeyondMargin ==
    \A t \in Tasks :
        (ValidatesRightAfterAdd(task[t]) /\ task[t].prevMcLife > MarginS)
        => ResolvesTrueOffline(task[t])

C7_Witness ==
    \E t \in Tasks :
        /\ ValidatesRightAfterAdd(task[t])
        /\ task[t].prevMcLife > MarginS
        /\ ResolvesTrueOffline(task[t])

IsValidatePassword(r) ==
    r.op = "validateSelected" /\ r.current.type = "galaxyquest"

\* C8 as stated: a validation of a selected password account calls the
\* session-validate endpoint once, refreshes at most once, and resolves to a
\* boolean.
C8_PasswordValidateOnce ==
    \A t \in Tasks :
        LET r == task[t]
        IN (IsValidatePassword(r) /\ r.pc = "done")
           => /\ Count(r.calls, "validate") = 1
              /\ Count(r.calls, "refresh") <= 1
              /\ r.result.kind = "resolved"
              /\ r.result.value.type = "boolean"

\* C9 as stated: validateSelected on any selected account settles by resolving
\* to the boolean its validator produced.
C9_DispatchResolvesBoolean ==
    \A t \in Tasks :
        LET r == task[t]
        IN (r.op = "validateSelected" /\ r.current.type # "none" /\ r.pc = "done")
           => r.result \in {Resolved(BoolVal(TRUE)), Resolved(BoolVal(FALSE))}

\* C10 as stated: one call of addGalaxyQuestAccount sends at most one login
\* request; after a pending/requires2fa answer it has returned to its caller.
C10_NoLoginOnItsOwn ==
    \A t \in Tasks :
        LET r == task[t]
        IN r.op = "addGalaxyQuestAccount"
           => /\ Count(r.calls, "login") <= 1
              /\ r.pc # "login2fa"

\* mojangErrorDisplayable(MojangErrorCode.ERROR_INVALID_CREDENTIALS), as line 42 names it
InvalidCredentialsError == Val("displayable", "ERROR_INVALID_CREDENTIALS")

\* C11 as stated: when the first login ended pending on the second factor and a
\* second login carrying a code has answered, a correct code gives a success
\* (the account is stored) and an incorrect code gives InvalidCredentials.
C11_ResumeWithCode ==
    \A t \in Tasks :
        LET r == task[t]
        IN (r.op = "addGalaxyQuestAccount" /\ r.pc = "done" /\ Len(r.calls) = 2)
           => IF r.calls[2].input.k = CorrectCode
              THEN /\ r.result = Resolved(Val("account", GqUuid))
                   /\ GqUuid \in DOMAIN accounts
              ELSE r.result = Rejected(InvalidCredentialsError)

\* C12 as stated: when the last login status is neither success nor pending,
\* addGalaxyQuestAccount rejects with InvalidCredentials and stores no account.
C12_InvalidCredentialsKind ==
    \A t \in Tasks :
        LET r == task[t]
        IN (r.op = "addGalaxyQuestAccount" /\ r.pc = "done" /\ r.loginStatus = "error")
           => /\ r.result = Rejected(InvalidCredentialsError)
              /\ StoreAsBefore(r)

\* C13: calculateExpiryDate(nowMs, lifetime) is at most nowMs plus the lifetime
\* (in milliseconds), and for a lifetime of at least 10 seconds it is exactly
\* nowMs plus the lifetime minus 10 seconds.
C13_ExpiryWithinLifetime ==
    expiry.called
    => /\ expiry.result <= expiry.nowMs + expiry.epiresInS * MsPerSecond
       /\ expiry.epiresInS >= 10 =>
             expiry.result = expiry.nowMs + expiry.epiresInS * MsPerSecond - 10 * MsPerSecond

C13_Witness == expiry.called /\ expiry.epiresInS = 30 /\ expiry.nowMs = StartMs + 1

\* C14 as stated: for a lifetime below the 10-second margin the result is
\* never earlier than nowMs.
C14_ClampedAtNow ==
    (expiry.called /\ expiry.epiresInS < MarginS) => expiry.result >= expiry.nowMs

\* C14 amended: for a lifetime below the 10-second margin (0 included) the
\* result is not clamped: it is nowMs minus the shortfall (10 - lifetime)
\* seconds, strictly earlier than nowMs.
C14_ShortfallBeforeNow ==
    (expiry.called /\ expiry.epiresInS < MarginS)
    => /\ expiry.result = expiry.nowMs - (MarginS - expiry.epiresInS) * MsPerSecond
       /\ expiry.result < expiry.nowMs

C14_Witness == expiry.called /\ expiry.epiresInS = 0 /\ expiry.result < expiry.nowMs

\* C15 as stated: removing a stored galaxyquest account invalidates its access
\* token at the provider (one invalidate call) and removes the record.
C15_RemoveInvalidates ==
    \A t \in Tasks :
        LET r == task[t]
        IN (/\ r.op = "removeGalaxyquestAccount"
            /\ r.pc = "done"
            /\ r.current.type = "galaxyquest")
           => /\ Count(r.calls, "invalidate") = 1
              /\ r.uuid \notin DOMAIN accounts

FlowOrder ==
    <<"getAccessToken", "getXBLToken", "getXSTSToken", "getMCAccessToken", "getMCProfile">>

\* the payload the preceding step returned (the entry code for the first call)
PrecedingPayload(r, ep) ==
    CASE ep = "getAccessToken" -> r.entryCode
      [] ep = "getXBLToken" -> IF r.authMode = AUTH_MODE_MC_REFRESH
                               THEN r.entryCode
                               ELSE r.accessToken.access_token
      [] ep = "getXSTSToken" -> r.xbl
      [] ep = "getMCAccessToken" -> r.xsts
      [] OTHER -> r.mcToken.access_token

\* C16: the calls of one execution of the flow are a prefix of: getAccessToken,
\* getXBLToken, getXSTSToken, getMCAccessToken, getMCProfile (without
\* getAccessToken in MC_REFRESH mode); so each is invoked at most once, and the
\* input of each call is the payload the preceding step returned; in MC_REFRESH
\* mode the input of getXBLToken is the token the caller supplied.
C16_FixedOrderThreaded ==
    \A t \in Tasks :
        LET r == task[t]
            skip == IF r.authMode = AUTH_MODE_MC_REFRESH THEN 1 ELSE 0
        IN r.flows >= 1
           => /\ r.flows = 1
              /\ Len(r.calls) + skip <= Len(FlowOrder)
              /\ \A i \in 1..Len(r.calls) :
                    /\ r.calls[i].ep = FlowOrder[i + skip]
                    /\ r.calls[i].input = PrecedingPayload(r, r.calls[i].ep)
              /\ (r.pc = "done" /\ r.failedAt = "none") => Len(r.calls) + skip = Len(FlowOrder)

C16_Witness ==
    \E t \in Tasks :
        /\ task[t].flows = 1
        /\ task[t].authMode = AUTH_MODE_MC_REFRESH
        /\ task[t].pc = "done"
        /\ task[t].failedAt = "none"
        /\ Len(task[t].calls) = 4
        /\ task[t].calls[1].input = task[t].current.microsoft.access_token

RefreshSucceeded(r) ==
    IsValidateMs(r) /\ r.flows = 1 /\ r.result = Resolved(BoolVal(TRUE))

\* C17: after a successful refresh the record keeps its uuid, type, username and
\* displayName; after an MC_REFRESH it differs from the record read at the
\* start only in accessToken and expiresAt (the new game token and its
\* expiry), the microsoft part untouched; after an MS_REFRESH accessToken,
\* expiresAt and the three microsoft fields are those of the new flow result.
C17_RefreshFrame ==
    \A t \in Tasks :
        LET r == task[t]
            c == r.current
            a == accounts[c.uuid]
        IN RefreshSucceeded(r)
           => /\ a.uuid = c.uuid /\ a.type = c.type
              /\ a.username = c.username /\ a.displayName = c.displayName
              /\ a.accessToken = r.mcToken.access_token
              /\ a.accessToken # c.accessToken
              /\ a.expiresAt = calculateExpiryDate(r.nowv, r.mcToken.expires_in)
              /\ IF r.authMode = AUTH_MODE_MC_REFRESH
                 THEN /\ a.microsoft = c.microsoft
                      /\ a = [c EXCEPT !.accessToken = a.accessToken,
                                       !.expiresAt = a.expiresAt]
                 ELSE /\ a.microsoft.access_token = r.accessToken.access_token
                      /\ a.microsoft.refresh_token = r.accessToken.refresh_token
                      /\ a.microsoft.expires_at =
                            calculateExpiryDate(r.nowv, r.accessToken.expires_in)
                      /\ a.microsoft.access_token # c.microsoft.access_token
                      /\ a.microsoft.refresh_token # c.microsoft.refresh_token

C17_Witness ==
    \E t \in Tasks :
        /\ RefreshSucceeded(task[t])
        /\ task[t].authMode = AUTH_MODE_MC_REFRESH
        /\ accounts[task[t].current.uuid].accessToken = task[t].mcToken.access_token
        /\ accounts[task[t].current.uuid].microsoft = task[t].current.microsoft

\* C18 as stated: every stored expiresAt and microsoft.expires_at is at most the
\* instant the provider issued the token plus its lifetime minus 10 seconds,
\* that is, 10 seconds before the provider stops honouring the token.
C18_ExpiryWithinProviderLifetime ==
    \A u \in DOMAIN accounts :
        accounts[u].type = "microsoft"
        => /\ accounts[u].expiresAt <= accounts[u].accessToken.exp - MarginS * MsPerSecond
           /\ accounts[u].microsoft.expires_at
                 <= accounts[u].microsoft.access_token.exp - MarginS * MsPerSecond

\* the token fields a successful validation passes to updateMicrosoftAuthAccount
WrittenFields(r) ==
    [accessToken |-> r.mcToken.access_token,
     expiresAt   |-> calculateExpiryDate(r.nowv, r.mcToken.expires_in),
     microsoft   |-> IF r.authMode = AUTH_MODE_MS_REFRESH
                     THEN [access_token  |-> r.accessToken.access_token,
                           refresh_token |-> r.accessToken.refresh_token,
                           expires_at    |-> calculateExpiryDate(r.nowv,
                                                                 r.accessToken.expires_in)]
                     ELSE r.current.microsoft]

TokenFields(a) ==
    [accessToken |-> a.accessToken, expiresAt |-> a.expiresAt, microsoft |-> a.microsoft]

FoundExpired(r) == IsValidateMs(r) /\ isExpired(r.nowv, r.current.expiresAt)

\* two validations that found the same Microsoft account expired, one begun
\* while the other was suspended
Interleaved(t, u) ==
    /\ t # u
    /\ FoundExpired(task[t]) /\ FoundExpired(task[u])
    /\ task[t].current.uuid = task[u].current.uuid
    /\ task[t].id \in task[u].during

ResolvedTrue(r) == r.pc = "done" /\ r.result = Resolved(BoolVal(TRUE))

\* C19: two validations of the same expired Microsoft account that interleave
\* both run a refresh flow, and once both have completed with success the stored
\* and the persisted record hold exactly the token fields of the one that
\* completed last, whatever the other one wrote.
C19_LastWriterWins ==
    \A t, u \in Tasks :
        Interleaved(t, u)
        => /\ task[t].flows = 1 /\ task[u].flows = 1
           /\ \A w \in {t, u} :
                 (/\ ResolvedTrue(task[t]) /\ ResolvedTrue(task[u])
                  /\ task[w].seq = MaxSeq)
                 => /\ task[w].current.uuid \in DOMAIN accounts
                    /\ TokenFields(accounts[task[w].current.uuid]) = WrittenFields(task[w])
                    /\ saved.accounts = accounts

\* both refreshed, and the one that began first completed last: the tokens of
\* the other one are lost
C19_Witness ==
    \E t, u \in Tasks :
        /\ Interleaved(t, u)
        /\ ResolvedTrue(task[t]) /\ ResolvedTrue(task[u])
        /\ task[t].writes = 1 /\ task[u].writes = 1
        /\ task[t].seq > task[u].seq
        /\ TokenFields(accounts[MsUuid]) = WrittenFields(task[t])
        /\ WrittenFields(task[t]) # WrittenFields(task[u])

\* C20 as stated: a validation that completes its refresh with a write finds its
\* account still selected at the moment of the write.
C20_WritesOnlyToSelected ==
    [][\A t \in Tasks :
          (/\ IsValidateMs(task[t]) /\ task[t].pc # "done"
           /\ task'[t].pc = "done" /\ task'[t].writes > task[t].writes)
          => selected = task[t].current.uuid]_vars

====
